---- MODULE Spec2Model ----
(***************************************************************************)
(* A model of src/tool.py: the LSAT practice uploader.  Question texts are *)
(* strings; classification really searches them for keywords.  The bank is *)
(* the module-level list `bank`; BANK_FILE is a token sequence on `disk`.   *)
(***************************************************************************)
EXTENDS Integers, Sequences, FiniteSets, TLC

(* ------------------------------ bounds -------------------------------- *)
\* Fragments concatenated into one text handed to classify_question.
MaxFrags == 2
\* Files in one upload batch.
MaxBatch == 2
\* Largest target of a one-section structure given to generate_exam_text.
MaxTarget == 9

(* ------------------------------ strings ------------------------------- *)
UpperCase == "ABCDEFGHIJKLMNOPQRSTUVWXYZ"
LowerCase == "abcdefghijklmnopqrstuvwxyz"
\* str.strip()/str.isspace() on the characters the model's texts use.
Whitespace == {" ", "\t", "\n", "\r", "\f"}

CharAt(s, i) == SubSeq(s, i, i)

LowerChar(c) ==
  IF \E i \in 1..Len(UpperCase) : CharAt(UpperCase, i) = c
  THEN CharAt(LowerCase, CHOOSE i \in 1..Len(UpperCase) : CharAt(UpperCase, i) = c)
  ELSE c

RECURSIVE lower(_)
lower(s) ==
  IF Len(s) = 0 THEN ""
  ELSE LowerChar(CharAt(s, 1)) \o lower(SubSeq(s, 2, Len(s)))

\* Python's `kw in s` on strings.
Contains(s, kw) ==
  \E i \in 1..(Len(s) - Len(kw) + 1) : SubSeq(s, i, i + Len(kw) - 1) = kw

RECURSIVE lstrip(_)
lstrip(s) ==
  IF Len(s) > 0 /\ CharAt(s, 1) \in Whitespace
  THEN lstrip(SubSeq(s, 2, Len(s)))
  ELSE s

RECURSIVE rstrip(_)
rstrip(s) ==
  IF Len(s) > 0 /\ CharAt(s, Len(s)) \in Whitespace
  THEN rstrip(SubSeq(s, 1, Len(s) - 1))
  ELSE s

strip(s) == rstrip(lstrip(s))

(* ----------------------------- taxonomy ------------------------------- *)
\* A dict keeps insertion order: each section is a sequence of
\* (category, keywords) pairs in declared order.
QUESTION_TYPES ==
  [LR |-> << [qtype |-> "Strengthen",          keywords |-> <<"strengthen", "support">>],
             [qtype |-> "Weaken",              keywords |-> <<"weaken", "undermine">>],
             [qtype |-> "Assumption",          keywords |-> <<"assume", "assumption">>],
             [qtype |-> "Flaw",                keywords |-> <<"flaw", "error", "mistake">>],
             [qtype |-> "Inference",           keywords |-> <<"infer", "inference", "follows">>],
             [qtype |-> "Principle",           keywords |-> <<"principle">>],
             [qtype |-> "Parallel Reasoning",  keywords |-> <<"parallel">>],
             [qtype |-> "Paradox",             keywords |-> <<"paradox">>],
             [qtype |-> "Method of Reasoning", keywords |-> <<"method of reasoning", "method">>] >>,
   RC |-> << [qtype |-> "Main Point",          keywords |-> <<"main point", "primary purpose">>],
             [qtype |-> "Author's Attitude",   keywords |-> <<"author's attitude", "tone">>],
             [qtype |-> "Inference",           keywords |-> <<"infer", "inference">>],
             [qtype |-> "Function",            keywords |-> <<"function of">>],
             [qtype |-> "Detail",              keywords |-> <<"detail", "mention">>],
             [qtype |-> "Analogy",             keywords |-> <<"analogy">>],
             [qtype |-> "Structure",           keywords |-> <<"structure", "organized">>] >>]

Sections == {"LR", "RC"}

DEFAULT_STRUCTURE == << <<"LR", 25>>, <<"RC", 27>> >>

\* any(kw in lc_text for kw in keywords)
AnyKeyword(keywords, lc_text) ==
  \E k \in 1..Len(keywords) : Contains(lc_text, keywords[k])

\* One `for qtype, keywords in ...items()` loop from position i on: the
\* qtype of the first category that matches, "" when the loop falls through.
RECURSIVE FirstMatch(_, _, _)
FirstMatch(cats, lc_text, i) ==
  IF i > Len(cats) THEN ""
  ELSE IF AnyKeyword(cats[i].keywords, lc_text) THEN cats[i].qtype
  ELSE FirstMatch(cats, lc_text, i + 1)

\* The two loops in the other order (RC checked before LR).
classify_question_rc_first(text) ==
  LET lc_text == lower(text)
      rc == FirstMatch(QUESTION_TYPES.RC, lc_text, 1)
      lr == FirstMatch(QUESTION_TYPES.LR, lc_text, 1)
  IN  IF rc # "" THEN rc ELSE IF lr # "" THEN lr ELSE "Unknown"

classify_question(text) ==
  LET lc_text == lower(text)
      lr == FirstMatch(QUESTION_TYPES.LR, lc_text, 1)
      rc == FirstMatch(QUESTION_TYPES.RC, lc_text, 1)
  IN  IF lr # "" THEN lr ELSE IF rc # "" THEN rc ELSE "Unknown"

(* ------------------------------ state --------------------------------- *)
VARIABLES
  cq_text,     \* argument of the classify_question call under study
  cq_result,   \* its return value, NotCalled before the call
  bank,        \* the module-level list `bank`: a sequence of entries
  bankType,    \* the Python type of `bank`: "list", or what json.load gave
  disk,        \* BANK_FILE: [state, doc], doc a sequence of tokens
  files,       \* request.files.getlist('files') of the last POST
  flashes,     \* messages flashed by the last request
  resp,        \* how the last request (or the start of the process) ended
  structure,   \* argument of the generate_exam_text call, NoStructure before
  counts,      \* per section of the structure: its `counts` dict
  picked,      \* per section and category: the entries sampled (bank positions)
  warnings,    \* the shortage warnings logged, in order
  proc,        \* the server process: "stopped", "running" or "crashed"
  diskBefore,  \* BANK_FILE as it was when the last save_bank() began
  threads,     \* per request thread: [pc, files, i, entry, buf]
  seen         \* the bank as each section of a concurrent /exam read it

classifyVars == <<cq_text, cq_result>>
serverVars == <<bank, bankType, disk, files, flashes, resp>>
examVars == <<structure, counts, picked, warnings>>
storeVars == <<proc, diskBefore>>
concVars == <<threads, seen>>
vars == <<cq_text, cq_result, bank, bankType, disk, files, flashes, resp,
          structure, counts, picked, warnings, proc, diskBefore, threads, seen>>

NotCalled == "(not called)"
NoStructure == << <<NotCalled, 0>> >>

(* --------------------------- persisted store -------------------------- *)
NoFile == [state |-> "absent", doc |-> <<>>]

\* json.dump(bank, f): the document as tokens, one per bracket and record.
RecordToken(e) == <<"rec", e.text, e.type, e.source>>

Dump(b) ==
  << <<"[">> >> \o [i \in 1..Len(b) |-> RecordToken(b[i])] \o << <<"]">> >>

\* BANK_FILE after a save_bank() that completes.
SavedFile(b) == [state |-> "file", doc |-> Dump(b)]

\* BANK_FILE after a save_bank() of b that stops when n tokens are written:
\* open(..., 'w') has truncated the file, json.dump got as far as n.
CutFile(b, n) == [state |-> "file", doc |-> SubSeq(Dump(b), 1, n)]

IsRecordToken(t) == Len(t) = 4 /\ t[1] = "rec"

\* A JSON value that is not an object with text/type/source.
OtherValue(t) == [json |-> t[1]]

ParseItem(t) ==
  IF IsRecordToken(t) THEN [text |-> t[2], type |-> t[3], source |-> t[4]]
  ELSE OtherValue(t)

\* json.load on a document: a list, an object, or JSONDecodeError.
IsListDoc(doc) ==
  /\ Len(doc) >= 2
  /\ doc[1] = <<"[">> /\ doc[Len(doc)] = <<"]">>
  /\ \A i \in 2..(Len(doc) - 1) : doc[i][1] \in {"rec", "num"}

IsObjectDoc(doc) == doc = << <<"{">>, <<"}">> >>

ListItems(doc) == [i \in 1..(Len(doc) - 2) |-> ParseItem(doc[i + 1])]

\* Lines 51-59: what the module-level load makes of BANK_FILE.  "denied"
\* is a file open() cannot read, "notutf8" one whose bytes do not decode:
\* only json.JSONDecodeError is caught.
LoadBank(d) ==
  CASE d.state = "absent"  -> [crash |-> FALSE, type |-> "list", bank |-> <<>>]
    [] d.state = "denied"  -> [crash |-> TRUE,  type |-> "list", bank |-> <<>>]
    [] d.state = "notutf8" -> [crash |-> TRUE,  type |-> "list", bank |-> <<>>]
    [] d.state = "file" ->
         IF IsListDoc(d.doc)
         THEN [crash |-> FALSE, type |-> "list", bank |-> ListItems(d.doc)]
         ELSE IF IsObjectDoc(d.doc)
         THEN [crash |-> FALSE, type |-> "dict", bank |-> <<>>]
         ELSE [crash |-> FALSE, type |-> "list", bank |-> <<>>]

(* ------------------------------ uploads ------------------------------- *)
ALLOWED_EXTENSIONS == {"png", "jpg", "jpeg", "txt"}

\* Position of the last "." of s, 0 when there is none.
LastDot(s) ==
  IF Contains(s, ".")
  THEN CHOOSE i \in 1..Len(s) :
         /\ CharAt(s, i) = "."
         /\ \A j \in (i + 1)..Len(s) : CharAt(s, j) # "."
  ELSE 0

\* filename.rsplit('.', 1)[1]
AfterLastDot(s) == SubSeq(s, LastDot(s) + 1, Len(s))

allowed_file(filename) ==
  /\ Contains(filename, ".")
  /\ lower(AfterLastDot(filename)) \in ALLOWED_EXTENSIONS

\* werkzeug's secure_filename on the names the model uploads: whitespace
\* and path separators become "_", leading and trailing "." and "_" go.
RECURSIVE Underscored(_)
Underscored(s) ==
  IF Len(s) = 0 THEN ""
  ELSE (IF CharAt(s, 1) \in Whitespace \cup {"/"} THEN "_" ELSE CharAt(s, 1))
       \o Underscored(SubSeq(s, 2, Len(s)))

RECURSIVE StripDots(_)
StripDots(s) ==
  IF Len(s) > 0 /\ CharAt(s, 1) \in {".", "_"} THEN StripDots(SubSeq(s, 2, Len(s)))
  ELSE IF Len(s) > 0 /\ CharAt(s, Len(s)) \in {".", "_"}
       THEN StripDots(SubSeq(s, 1, Len(s) - 1))
  ELSE s

secure_filename(filename) == StripDots(Underscored(filename))

\* pathlib's suffix of a one-component path, lower-cased.
SuffixLower(name) ==
  IF LastDot(name) > 1 /\ LastDot(name) < Len(name)
  THEN lower(SubSeq(name, LastDot(name), Len(name)))
  ELSE ""

TextStrengthen == "Which most strengthens the argument?"
TextTone == "The author's TONE is"
TextPlain == "What is 2 + 2?"

Returns(text) == [raises |-> FALSE, text |-> text]
Raises == [raises |-> TRUE, text |-> ""]

\* An uploaded file: its name, what extract_text_from_image makes of its
\* bytes (`ocr`: Image.open or pytesseract may raise) and what
\* read_text(encoding='utf-8') makes of them (`utf8`: decoding may raise).
Files ==
  { [filename |-> "q1.txt",         ocr |-> Raises, utf8 |-> Returns(TextStrengthen)],
    [filename |-> "copy of q1.txt", ocr |-> Raises, utf8 |-> Returns(TextStrengthen)],
    [filename |-> "Q2.PNG",         ocr |-> Returns(TextTone), utf8 |-> Raises],
    [filename |-> "blank.jpg",      ocr |-> Returns(" \n"),    utf8 |-> Raises],
    [filename |-> "bad.png",        ocr |-> Raises, utf8 |-> Raises],
    [filename |-> "latin1.txt",     ocr |-> Raises, utf8 |-> Raises],
    [filename |-> "notes.pdf",      ocr |-> Raises, utf8 |-> Returns(TextPlain)] }

\* One multi-file selection: up to MaxBatch files, each taken once.
Batches ==
  {fs \in UNION {[1..n -> Files] : n \in 0..MaxBatch} :
     \A i, j \in 1..Len(fs) : i # j => fs[i] # fs[j]}

NoEntry == [text |-> "", type |-> "", source |-> ""]

\* Lines 120-132 for one file, which read no shared state: the file is
\* skipped (falsy or disallowed name), reading it raises, its text is
\* blank, or it yields an entry.
ReadUpload(file) ==
  IF ~(file.filename # "" /\ allowed_file(file.filename))
  THEN [kind |-> "skipped", filename |-> file.filename, entry |-> NoEntry]
  ELSE LET filename == secure_filename(file.filename)
           read == IF SuffixLower(filename) \in {".png", ".jpg", ".jpeg"}
                   THEN file.ocr ELSE file.utf8
       IN  IF read.raises
           THEN [kind |-> "raised", filename |-> filename, entry |-> NoEntry]
           ELSE IF strip(read.text) = ""
           THEN [kind |-> "blank", filename |-> filename, entry |-> NoEntry]
           ELSE [kind |-> "entry", filename |-> filename,
                 entry |-> [text |-> read.text,
                            type |-> classify_question(read.text),
                            source |-> filename]]

\* ReadUpload tabulated over the files of the model.
Uploaded == [f \in Files |-> ReadUpload(f)]

\* any(e['text'] == text for e in bank)
HasText(b, text) == \E i \in 1..Len(b) : b[i].text = text

\* The duplicate test left out: every extracted text is appended.
AddEntryNoCheck(st, entry, filename) ==
  [st EXCEPT !.bank = Append(st.bank, entry),
             !.flashes = Append(st.flashes, <<"Ingested", filename, entry.type>>)]

\* Lines 133-137: append unless the text is already in the bank.
AddEntry(st, entry, filename) ==
  IF ~HasText(st.bank, entry.text)
  THEN [st EXCEPT !.bank = Append(st.bank, entry),
                  !.flashes = Append(st.flashes, <<"Ingested", filename, entry.type>>)]
  ELSE [st EXCEPT !.flashes = Append(st.flashes, <<"Duplicate", filename, "skipped">>)]

\* The body of `for file in files` for one file, on the loop's state
\* st = [bank, flashes, raised].
ProcessFile(st, file) ==
  LET u == Uploaded[file] IN
  CASE u.kind = "skipped" -> st
    [] u.kind = "raised"  -> [st EXCEPT !.raised = TRUE]
    [] u.kind = "blank"   ->
         [st EXCEPT !.flashes = Append(st.flashes,
                                       <<"Failed to extract text from", u.filename, "">>)]
    [] u.kind = "entry"   -> AddEntry(st, u.entry, u.filename)

\* The loop from file i on; an exception ends it.
RECURSIVE ProcessFiles(_, _, _)
ProcessFiles(st, fs, i) ==
  IF i > Len(fs) \/ st.raised THEN st
  ELSE ProcessFiles(ProcessFile(st, fs[i]), fs, i + 1)

\* save_bank() at the end of a POST.  `fails` and `n`: the write stops
\* with n tokens written (an OSError, or the process is stopped); a file
\* that cannot be opened is left as it is.
SaveBank(b, fails, n) ==
  IF disk.state = "denied"
  THEN resp' = "save failed" /\ UNCHANGED disk
  ELSE IF fails
  THEN resp' = "save failed" /\ disk' = CutFile(b, n)
  ELSE resp' = "redirect" /\ disk' = SavedFile(b)

\* index(), POST.
IndexPost(fs, fails, n) ==
  /\ files' = fs
  /\ UNCHANGED bankType
  /\ IF Len(fs) = 0
     THEN /\ flashes' = << <<"No files selected", "", "">> >>
          /\ resp' = "redirect"
          /\ UNCHANGED <<bank, disk>>
     ELSE LET st == ProcessFiles([bank |-> bank, flashes |-> <<>>, raised |-> FALSE],
                                 fs, 1)
          IN  /\ bank' = st.bank
              /\ flashes' = st.flashes
              /\ IF st.raised
                 THEN resp' = "error" /\ UNCHANGED disk
                 ELSE SaveBank(st.bank, fails, n)

(* --------------------------- exam composition ------------------------- *)
Min(a, b) == IF a < b THEN a ELSE b

RECURSIVE SeqProduct(_)
\* All sequences drawing element k from sets[k].
SeqProduct(sets) ==
  IF Len(sets) = 0 THEN {<<>>}
  ELSE {<<h>> \o t : h \in Head(sets), t \in SeqProduct(Tail(sets))}

RECURSIVE SumSeq(_)
SumSeq(q) == IF Len(q) = 0 THEN 0 ELSE Head(q) + SumSeq(Tail(q))

\* list(QUESTION_TYPES[section].keys())
Types(section) ==
  [i \in 1..Len(QUESTION_TYPES[section]) |-> QUESTION_TYPES[section][i].qtype]

TypeSet(section) == {Types(section)[i] : i \in 1..Len(Types(section))}

\* The whole remainder given to the first category.
CountsForLumped(types, total) ==
  LET base == total \div Len(types)
      rem == total % Len(types)
  IN  { [i \in 1..Len(types) |-> IF i = 1 THEN base + rem ELSE base] }

\* Every category rounded up when the target does not divide evenly.
CountsForCeil(types, total) ==
  LET base == total \div Len(types)
      rem == total % Len(types)
  IN  { [i \in 1..Len(types) |-> IF rem > 0 THEN base + 1 ELSE base] }

\* Lines 95-98: the `counts` dicts random.sample(types, rem) can produce,
\* indexed by the category's position in `types`.
CountsFor(types, total) ==
  LET base == total \div Len(types)
      rem == total % Len(types)
  IN  { [i \in 1..Len(types) |-> IF i \in extra THEN base + 1 ELSE base] :
          extra \in {X \in SUBSET (1..Len(types)) : Cardinality(X) = rem} }

\* Lines 94 and 100: positions of the bank's entries of this section whose
\* type is qtype.
Candidates(b, section, qtype) ==
  {i \in 1..Len(b) : b[i].type \in TypeSet(section) /\ b[i].type = qtype}

\* A short category contributes nothing.
SamplesOrNone(cands, cnt) ==
  IF Cardinality(cands) < cnt THEN {{}}
  ELSE {S \in SUBSET cands : Cardinality(S) = cnt}

\* Line 103: random.sample(candidates, min(cnt, len(candidates))), as the
\* set of entries drawn (the order of the draw is lost in the shuffle).
Samples(cands, cnt) ==
  {S \in SUBSET cands : Cardinality(S) = Min(cnt, Cardinality(cands))}

\* Lines 99-103 for one section under one `counts`: the possible draws,
\* one set per category.
SectionPicks(b, section, cnt) ==
  SeqProduct([i \in 1..Len(Types(section)) |->
                Samples(Candidates(b, section, Types(section)[i]), cnt[i])])

\* Lines 101-102 for one section: a warning per short category, in order.
\* The message names the category and the two numbers; `section` records
\* which pass of the outer loop logged it.
SectionWarnings(b, section, cnt) ==
  LET short == {i \in 1..Len(Types(section)) :
                  Cardinality(Candidates(b, section, Types(section)[i])) < cnt[i]}
      F[i \in 0..Len(Types(section))] ==
        IF i = 0 THEN <<>>
        ELSE IF i \in short
             THEN Append(F[i - 1],
                         [section |-> section, qtype |-> Types(section)[i],
                          needed |-> cnt[i],
                          available |->
                            Cardinality(Candidates(b, section, Types(section)[i]))])
             ELSE F[i - 1]
  IN  F[Len(Types(section))]

RECURSIVE Flatten(_)
Flatten(qq) == IF Len(qq) = 0 THEN <<>> ELSE Head(qq) \o Flatten(Tail(qq))

\* generate_exam_text(struct), struct a sequence of <<section, total>> in
\* the dict's order.  The final shuffle and the rendering read `selected`
\* only; `selected` is the union, with multiplicity, of the sets in picked.
generate_exam_text(struct) ==
  /\ structure' = struct
  /\ \E cs \in SeqProduct([k \in 1..Len(struct) |->
                             CountsFor(Types(struct[k][1]), struct[k][2])]) :
       /\ counts' = cs
       /\ picked' \in SeqProduct([k \in 1..Len(struct) |->
                                    SectionPicks(bank, struct[k][1], cs[k])])
       /\ warnings' = Flatten([k \in 1..Len(struct) |->
                                 SectionWarnings(bank, struct[k][1], cs[k])])

(* ------------------------- the upload server -------------------------- *)
\* The bank file a run starts from: none, or one an earlier run saved.
StartBanks ==
  { <<>>,
    << [text |-> TextStrengthen \o "\n", type |-> "Strengthen", source |-> "old.png"] >> }

ExamIdle ==
  /\ structure = NoStructure
  /\ counts = <<>>
  /\ picked = <<>>
  /\ warnings = <<>>

ClassifyIdle == cq_text = "" /\ cq_result = NotCalled

StoreIdle == proc = "running" /\ diskBefore = NoFile

ConcIdle == threads = <<>> /\ seen = <<>>

Init ==
  /\ bank \in StartBanks
  /\ bankType = "list"
  /\ disk = (IF bank = <<>> THEN NoFile ELSE SavedFile(bank))
  /\ files = <<>>
  /\ flashes = <<>>
  /\ resp = "none"
  /\ ClassifyIdle /\ ExamIdle /\ StoreIdle /\ ConcIdle

\* A POST whose save succeeds.
Upload ==
  \E fs \in Batches :
    /\ IndexPost(fs, FALSE, 0)
    /\ UNCHANGED <<classifyVars, examVars, storeVars, concVars>>

Next == Upload

Spec == Init /\ [][Next]_vars

(* ---------------------- classify_question alone ----------------------- *)
Frags == {"Strengthen", "WEAKEN", "infer", "tone", "Main Point", "method",
          " the ", "mention", "err", "or", "Analogy", "\n"}

RECURSIVE Concats(_)
Concats(n) ==
  IF n = 0 THEN {""}
  ELSE LET S == Concats(n - 1) IN S \cup {s \o f : s \in S, f \in Frags}

ClassifyTexts == Concats(MaxFrags)

InitClassify ==
  /\ cq_text \in ClassifyTexts
  /\ cq_result = NotCalled
  /\ bank = <<>>
  /\ bankType = "list"
  /\ disk = NoFile
  /\ files = <<>>
  /\ flashes = <<>>
  /\ resp = "none"
  /\ ExamIdle /\ StoreIdle /\ ConcIdle

ClassifyCall ==
  /\ cq_result = NotCalled
  /\ cq_result' = classify_question(cq_text)
  /\ UNCHANGED <<cq_text, serverVars, examVars, storeVars, concVars>>

NextClassify == ClassifyCall

SpecClassify == InitClassify /\ [][NextClassify]_vars

(* ---------------------- generate_exam_text alone ---------------------- *)
Entry(text, source) ==
  [text |-> text, type |-> classify_question(text), source |-> source]

SmallBank ==
  << Entry("What can be inferred from the passage?", "p1.png"),
     Entry(TextPlain, "p2.txt"),
     Entry(TextStrengthen, "p3.txt") >>

FullBank ==
  << Entry(TextStrengthen, "a1.txt"),
     Entry("Which would undermine it?", "a2.txt"),
     Entry("The argument assumes that", "a3.txt"),
     Entry("The reasoning is flawed because", "a4.txt"),
     Entry("What can be inferred?", "a5.txt"),
     Entry("Which principle applies?", "a6.txt"),
     Entry("Which is most parallel?", "a7.txt"),
     Entry("Resolve the paradox.", "a8.txt"),
     Entry("Which method is used?", "a9.txt"),
     Entry("The main point is", "b1.txt"),
     Entry(TextTone, "b2.txt"),
     Entry("The function of paragraph 2 is", "b4.txt"),
     Entry("The passage mentions", "b5.txt"),
     Entry("Which analogy fits?", "b6.txt"),
     Entry("How is the passage organized?", "b7.txt"),
     Entry("Which best supports the claim?", "a1b.txt"),
     Entry("The primary purpose is", "b1b.txt"),
     Entry(TextPlain, "u.txt") >>

ExamBanks == {<<>>, SmallBank, FullBank}

Structures ==
  {DEFAULT_STRUCTURE}
  \cup {<< <<s, t>> >> : s \in Sections, t \in 0..MaxTarget}

InitExam ==
  /\ bank \in ExamBanks
  /\ bankType = "list"
  /\ disk = (IF bank = <<>> THEN NoFile ELSE SavedFile(bank))
  /\ files = <<>>
  /\ flashes = <<>>
  /\ resp = "none"
  /\ ClassifyIdle /\ ExamIdle /\ StoreIdle /\ ConcIdle

\* exam(): GET /exam.
exam ==
  /\ structure = NoStructure
  /\ generate_exam_text(DEFAULT_STRUCTURE)
  /\ UNCHANGED <<classifyVars, serverVars, storeVars, concVars>>

\* A direct call with another structure.
Compose ==
  /\ structure = NoStructure
  /\ \E struct \in Structures \ {DEFAULT_STRUCTURE} : generate_exam_text(struct)
  /\ UNCHANGED <<classifyVars, serverVars, storeVars, concVars>>

NextExam == exam \/ Compose

SpecExam == InitExam /\ [][NextExam]_vars

(* -------------------- the bank file across restarts ------------------- *)
OneRecord == << Entry(TextTone, "old.png") >>

\* The file as the last run left it.
InitialDisk == SavedFile(OneRecord)

\* What can be at BANK_FILE when the process starts: nothing, a file an
\* earlier run saved, or a file changed from outside.
StoredDisks ==
  { NoFile,
    SavedFile(<<>>),
    SavedFile(OneRecord),
    [state |-> "denied",  doc |-> Dump(OneRecord)],
    [state |-> "notutf8", doc |-> <<>>],
    [state |-> "file", doc |-> <<>>],
    [state |-> "file", doc |-> SubSeq(Dump(OneRecord), 1, 2)],
    [state |-> "file", doc |-> << <<"{">>, <<"}">> >>],
    [state |-> "file", doc |-> << <<"[">>, <<"num", "1">>, <<"]">> >>] }

InitStore ==
  /\ proc = "stopped"
  /\ diskBefore = NoFile
  /\ bank = <<>>
  /\ bankType = "list"
  /\ disk = InitialDisk
  /\ files = <<>>
  /\ flashes = <<>>
  /\ resp = "none"
  /\ ClassifyIdle /\ ExamIdle /\ ConcIdle

\* Importing the module: lines 51-59.
Start ==
  /\ proc = "stopped"
  /\ LET r == LoadBank(disk)
     IN  /\ proc' = (IF r.crash THEN "crashed" ELSE "running")
         /\ bank' = r.bank
         /\ bankType' = r.type
  /\ resp' = "started"
  /\ files' = <<>>
  /\ flashes' = <<>>
  /\ UNCHANGED <<disk, diskBefore, classifyVars, examVars, concVars>>

\* `bank` is a list of entries: what index() takes for granted.
WellFormed ==
  /\ bankType = "list"
  /\ \A i \in 1..Len(bank) : "text" \in DOMAIN bank[i]

Ingested(b, fs) ==
  ProcessFiles([bank |-> b, flashes |-> <<>>, raised |-> FALSE], fs, 1)

\* A POST of one file; the save may stop part-way.
StoreUpload ==
  /\ proc = "running"
  /\ WellFormed
  /\ \E fs \in {b \in Batches : Len(b) = 1} :
     \E fails \in BOOLEAN :
     \E n \in 0..(Len(bank) + 2) :
       /\ fails => n < Len(Dump(Ingested(bank, fs).bank))
       /\ ~fails => n = 0
       /\ IndexPost(fs, fails, n)
  /\ diskBefore' = disk
  /\ UNCHANGED <<proc, classifyVars, examVars, concVars>>

\* A POST on a bank that is no list of entries: line 133 or 134 raises.
StoreUploadBroken ==
  /\ proc = "running"
  /\ ~WellFormed
  /\ \E fs \in {b \in Batches : Len(b) = 1 /\ Uploaded[b[1]].kind = "entry"} :
       files' = fs
  /\ flashes' = <<>>
  /\ resp' = "error"
  /\ UNCHANGED <<bank, bankType, disk, storeVars, classifyVars, examVars, concVars>>

\* The process ends; its memory goes.
Stop ==
  /\ proc = "running"
  /\ proc' = "stopped"
  /\ bank' = <<>>
  /\ bankType' = "list"
  /\ resp' = "none"
  /\ files' = <<>>
  /\ flashes' = <<>>
  /\ UNCHANGED <<disk, diskBefore, classifyVars, examVars, concVars>>

\* BANK_FILE is edited, replaced or removed while the process is down.
ExternalEdit ==
  /\ proc \in {"stopped", "crashed"}
  /\ disk' \in StoredDisks \ {disk}
  /\ proc' = "stopped"
  /\ resp' = "none"
  /\ UNCHANGED <<bank, bankType, files, flashes, diskBefore,
                 classifyVars, examVars, concVars>>

NextStore == Start \/ StoreUpload \/ StoreUploadBroken \/ Stop \/ ExternalEdit

SpecStore == InitStore /\ [][NextStore]_vars

(* ------------------------ concurrent requests ------------------------- *)
Uploaders == {"u1", "u2"}
ThreadIds == Uploaders \cup {"ex"}

ConcFiles == {f \in Files : f.filename \in {"q1.txt", "Q2.PNG"}}
ConcBatches == UNION {[1..n -> ConcFiles] : n \in 1..MaxBatch}

IdleThread == [pc |-> "idle", files |-> <<>>, i |-> 1, entry |-> NoEntry, buf |-> <<>>]

InitConc ==
  /\ threads = [t \in ThreadIds |-> IdleThread]
  /\ seen = <<>>
  /\ bank = <<>>
  /\ bankType = "list"
  /\ disk = NoFile
  /\ files = <<>>
  /\ flashes = <<>>
  /\ resp = "none"
  /\ ClassifyIdle /\ ExamIdle /\ StoreIdle

ConcFrame == UNCHANGED <<bankType, files, flashes, resp, classifyVars, examVars, storeVars>>

\* The loop of index() moves to the next file, or leaves for save_bank().
Advance(th) ==
  [th EXCEPT !.i = th.i + 1,
             !.pc = IF th.i + 1 > Len(th.files) THEN "open" ELSE "read"]

\* A POST arrives and is given a thread.
Begin(t) ==
  /\ threads[t].pc = "idle"
  /\ \E fs \in ConcBatches :
       threads' = [threads EXCEPT ![t] = [IdleThread EXCEPT !.pc = "read", !.files = fs]]
  /\ UNCHANGED <<bank, disk, seen>>
  /\ ConcFrame

\* Lines 120-133 for the thread's current file, ending with the test
\* `not any(e['text'] == text for e in bank)`.
ReadAndCheck(t) ==
  /\ threads[t].pc = "read"
  /\ LET th == threads[t]
         u == Uploaded[th.files[th.i]]
     IN  threads' = [threads EXCEPT ![t] =
           CASE u.kind \in {"skipped", "blank"} -> Advance(th)
             [] u.kind = "raised" -> [th EXCEPT !.pc = "failed"]
             [] u.kind = "entry" ->
                  IF HasText(bank, u.entry.text) THEN Advance(th)
                  ELSE [th EXCEPT !.pc = "append", !.entry = u.entry]]
  /\ UNCHANGED <<bank, disk, seen>>
  /\ ConcFrame

\* Line 134: bank.append(entry).
AppendEntry(t) ==
  /\ threads[t].pc = "append"
  /\ bank' = Append(bank, threads[t].entry)
  /\ threads' = [threads EXCEPT ![t] = Advance(threads[t])]
  /\ UNCHANGED <<disk, seen>>
  /\ ConcFrame

\* Line 86: open(BANK_FILE, 'w') truncates the file.
SaveOpen(t) ==
  /\ threads[t].pc = "open"
  /\ disk' = [state |-> "file", doc |-> <<>>]
  /\ threads' = [threads EXCEPT ![t].pc = "dump"]
  /\ UNCHANGED <<bank, seen>>
  /\ ConcFrame

\* Line 87: json.dump serialises the bank into the file object's buffer.
SaveDump(t) ==
  /\ threads[t].pc = "dump"
  /\ threads' = [threads EXCEPT ![t].pc = "close", ![t].buf = Dump(bank)]
  /\ UNCHANGED <<bank, disk, seen>>
  /\ ConcFrame

\* Leaving the `with`: the buffer is written at offset 0 of the file as
\* it is now.
SaveClose(t) ==
  /\ threads[t].pc = "close"
  /\ disk' = [state |-> "file",
              doc |-> threads[t].buf
                      \o SubSeq(disk.doc, Len(threads[t].buf) + 1, Len(disk.doc))]
  /\ threads' = [threads EXCEPT ![t].pc = "done"]
  /\ UNCHANGED <<bank, seen>>
  /\ ConcFrame

\* GET /exam on its thread: line 94 reads the bank once per section of
\* DEFAULT_STRUCTURE.
ExamSection ==
  /\ threads["ex"].pc \in {"idle", "read"}
  /\ seen' = Append(seen, bank)
  /\ threads' = [threads EXCEPT !["ex"].pc =
                    IF Len(seen) + 1 = Len(DEFAULT_STRUCTURE) THEN "done" ELSE "read"]
  /\ UNCHANGED <<bank, disk>>
  /\ ConcFrame

NextConc ==
  \/ \E t \in Uploaders :
       \/ Begin(t)
       \/ ReadAndCheck(t)
       \/ AppendEntry(t)
       \/ SaveOpen(t)
       \/ SaveDump(t)
       \/ SaveClose(t)
  \/ ExamSection

SpecConc == InitConc /\ [][NextConc]_vars

(* ============================== claims ================================ *)

(* ------------------------------ C2 ------------------------------------ *)
TaxonomyOrder == QUESTION_TYPES.LR \o QUESTION_TYPES.RC

\* Positions, in the taxonomy order, of the categories one of whose
\* keywords occurs in the lower-cased text.
Matching(cats, text) ==
  {i \in 1..Len(cats) :
     \E k \in 1..Len(cats[i].keywords) : Contains(lower(text), cats[i].keywords[k])}

Least(S) == CHOOSE m \in S : \A n \in S : m <= n

\* C2: classify_question returns the first category in taxonomy order (LR
\* categories, then RC categories) one of whose keywords is a substring of
\* the lower-cased text, and "Unknown" when there is none (the empty text
\* included); "strengthen" with "weaken" gives Strengthen, and a text
\* matching an LR and an RC keyword gets an LR category.
Theorem_C2 ==
  cq_result # NotCalled =>
    /\ cq_result = (IF Matching(TaxonomyOrder, cq_text) = {} THEN "Unknown"
                    ELSE TaxonomyOrder[Least(Matching(TaxonomyOrder, cq_text))].qtype)
    /\ (Contains(lower(cq_text), "strengthen") /\ Contains(lower(cq_text), "weaken")
          => cq_result = "Strengthen")
    /\ (Matching(QUESTION_TYPES.LR, cq_text) # {} /\ Matching(QUESTION_TYPES.RC, cq_text) # {}
          => cq_result = QUESTION_TYPES.LR[Least(Matching(QUESTION_TYPES.LR, cq_text))].qtype)
    /\ (cq_text = "" => cq_result = "Unknown")

\* "weaken" comes first in the text, and Strengthen still wins.
Witness_C2 == cq_text = "WEAKENStrengthen" /\ cq_result = "Strengthen"

(* ------------------------------ C1 ------------------------------------ *)
NoDupTexts(b) ==
  \A i, j \in 1..Len(b) : i # j => b[i].text # b[j].text

TextCount(b, text) == Cardinality({i \in 1..Len(b) : b[i].text = text})

\* Files of the batch the loop reached: up to the first one whose read raises.
Reached(fs) ==
  {k \in 1..Len(fs) : \A j \in 1..(k - 1) : Uploaded[fs[j]].kind # "raised"}

\* One POST, from bank to bank': nothing is removed or reordered, every
\* text the batch extracted has exactly one record, and a one-file batch
\* whose text the bank already holds changes nothing and flashes Duplicate.
IngestStep ==
  /\ Len(bank) <= Len(bank')
  /\ SubSeq(bank', 1, Len(bank)) = bank
  /\ \A k \in Reached(files') :
       Uploaded[files'[k]].kind = "entry"
         => TextCount(bank', Uploaded[files'[k]].entry.text) = 1
  /\ (/\ Len(files') = 1
      /\ Uploaded[files'[1]].kind = "entry"
      /\ HasText(bank, Uploaded[files'[1]].entry.text))
       => /\ bank' = bank
          /\ flashes' = << <<"Duplicate", Uploaded[files'[1]].filename, "skipped">> >>

\* C1: from a bank of pairwise-distinct texts, no sequence of POSTs makes
\* two records share a text; a file whose text the bank holds appends
\* nothing and is flashed as a duplicate, so the same text ingested twice
\* has one record.
Theorem_C1 == [](NoDupTexts(bank)) /\ [][IngestStep]_vars

\* The same text uploaded twice in one batch: one record, one Duplicate.
Witness_C1 ==
  /\ Len(files) = 2
  /\ files[1].filename = "q1.txt" /\ files[2].filename = "copy of q1.txt"
  /\ TextCount(bank, TextStrengthen) = 1
  /\ flashes = << <<"Ingested", "q1.txt", "Strengthen">>,
                  <<"Duplicate", "copy_of_q1.txt", "skipped">> >>

(* ------------------------------ C6 ------------------------------------ *)
\* C6: a failure on one file of a batch is local to it: every file of the
\* batch that reads as a non-blank text has its text in the bank afterwards
\* (whatever failed before it), the request ends normally and the bank file
\* holds the bank.
Counterexample_C6 ==
  Len(files) > 0 =>
    /\ \A k \in 1..Len(files) :
         Uploaded[files[k]].kind = "entry"
           => HasText(bank, Uploaded[files[k]].entry.text)
    /\ resp = "redirect"
    /\ disk = SavedFile(bank)

(* ------------------------- C3, C4, C5, C10 ---------------------------- *)
Called == structure # NoStructure

SecName(k) == structure[k][1]
SecTotal(k) == structure[k][2]
SecTypes(k) == Types(SecName(k))
SecCands(k, i) == Candidates(bank, SecName(k), SecTypes(k)[i])

\* Records selected for section k.
SecSelected(k) ==
  SumSeq([i \in 1..Len(picked[k]) |-> Cardinality(picked[k][i])])

ExamSize == SumSeq([k \in 1..Len(picked) |-> SecSelected(k)])

TotalTarget == SumSeq([k \in 1..Len(structure) |-> SecTotal(k)])

\* Every <<section position, category position>> of the call.
Slots ==
  UNION {{<<k, i>> : i \in 1..Len(SecTypes(k))} : k \in 1..Len(structure)}

IsShort(k, i) == Cardinality(SecCands(k, i)) < counts[k][i]

Shortfall(k) ==
  SumSeq([i \in 1..Len(SecTypes(k)) |->
            IF IsShort(k, i) THEN counts[k][i] - Cardinality(SecCands(k, i)) ELSE 0])

\* C3: a section never gets more records than its target, gets fewer only
\* when one of its categories has fewer candidates than its count, and the
\* exam holds at most the sum of the targets.
Theorem_C3 ==
  Called =>
    /\ \A k \in 1..Len(structure) :
         /\ SecSelected(k) <= SecTotal(k)
         /\ SecSelected(k) < SecTotal(k)
              => \E i \in 1..Len(SecTypes(k)) : IsShort(k, i)
    /\ ExamSize <= TotalTarget

\* A section filled in part: short, yet not empty.
Witness_C3 ==
  /\ Called
  /\ \E k \in 1..Len(structure) :
       0 < SecSelected(k) /\ SecSelected(k) < SecTotal(k)

\* C4: with k categories and target T every category is allocated T div k,
\* exactly T mod k categories one more, T in all; when no category is short
\* the section gets exactly T records, each category exactly its count, of
\* its own type.
Theorem_C4 ==
  Called =>
    \A k \in 1..Len(structure) :
      LET n == Len(SecTypes(k))
          base == SecTotal(k) \div n
      IN  /\ \A i \in 1..n : counts[k][i] \in {base, base + 1}
          /\ Cardinality({i \in 1..n : counts[k][i] = base + 1}) = SecTotal(k) % n
          /\ SumSeq(counts[k]) = SecTotal(k)
          /\ (\A i \in 1..n : ~IsShort(k, i))
               => /\ SecSelected(k) = SecTotal(k)
                  /\ \A i \in 1..n :
                       /\ Cardinality(picked[k][i]) = counts[k][i]
                       /\ \A r \in picked[k][i] : bank[r].type = SecTypes(k)[i]

\* RC with target 8: every category one record, one category two, none short.
Witness_C4 ==
  /\ structure = << <<"RC", 8>> >>
  /\ \A i \in 1..Len(SecTypes(1)) : ~IsShort(1, i)
  /\ SecSelected(1) = 8

HasWarning(k, i) ==
  \E w \in 1..Len(warnings) :
    warnings[w] = [section |-> SecName(k), qtype |-> SecTypes(k)[i],
                   needed |-> counts[k][i],
                   available |-> Cardinality(SecCands(k, i))]

\* C5: a category with fewer candidates than its count is logged and gives
\* all its candidates; every other category gives exactly its count; nothing
\* else is logged; the exam is short of the targets by exactly the shortfall.
Theorem_C5 ==
  Called =>
    /\ \A k \in 1..Len(structure) : \A i \in 1..Len(SecTypes(k)) :
         IF IsShort(k, i)
         THEN picked[k][i] = SecCands(k, i) /\ HasWarning(k, i)
         ELSE /\ picked[k][i] \subseteq SecCands(k, i)
              /\ Cardinality(picked[k][i]) = counts[k][i]
              /\ ~HasWarning(k, i)
    /\ Len(warnings) = Cardinality({ki \in Slots : IsShort(ki[1], ki[2])})
    /\ ExamSize =
         TotalTarget - SumSeq([k \in 1..Len(structure) |-> Shortfall(k)])

\* One category short but not empty, beside one that fills its count.
Witness_C5 ==
  /\ Called
  /\ \E k \in 1..Len(structure) : \E i, j \in 1..Len(SecTypes(k)) :
       /\ IsShort(k, i) /\ picked[k][i] # {}
       /\ ~IsShort(k, j) /\ counts[k][j] > 0

TimesSelected(r) == Cardinality({ki \in Slots : r \in picked[ki[1]][ki[2]]})

\* C10: under the default structure an exam holds each bank record at most
\* once over all its sections, and no record of type "Unknown".
Counterexample_C10 ==
  structure = DEFAULT_STRUCTURE =>
    \A r \in 1..Len(bank) :
      /\ TimesSelected(r) <= 1
      /\ TimesSelected(r) > 0 => bank[r].type # "Unknown"

(* ------------------------------ C7 ------------------------------------ *)
\* C7: after a save_bank() that failed part-way the bank file holds the
\* complete contents it had before the save, or the complete new contents.
Counterexample_C7 ==
  resp = "save failed" => (disk = diskBefore \/ disk = SavedFile(bank))

(* ------------------------------ C9 ------------------------------------ *)
AllRecords(doc) == \A i \in 2..(Len(doc) - 1) : IsRecordToken(doc[i])

\* C9: the load never crashes the process, and leaves in `bank` the stored
\* sequence of records when the file holds one, the empty list otherwise.
Counterexample_C9 ==
  /\ proc # "crashed"
  /\ resp = "started" =>
       /\ bankType = "list"
       /\ bank = (IF disk.state = "file" /\ IsListDoc(disk.doc) /\ AllRecords(disk.doc)
                  THEN ListItems(disk.doc) ELSE <<>>)

(* ------------------------------ C8 ------------------------------------ *)
AllDone == \A t \in ThreadIds : threads[t].pc = "done"

\* The banks a run of the two batches one after the other passes through.
SerialBanks ==
  LET A == threads["u1"].files
      B == threads["u2"].files
  IN  { <<>>, Ingested(<<>>, A).bank, Ingested(<<>>, B).bank,
        Ingested(Ingested(<<>>, A).bank, B).bank,
        Ingested(Ingested(<<>>, B).bank, A).bank }

\* C8: under every interleaving of two uploads and an exam the bank has no
\* two records of one text, the bank file holds every record of the bank
\* once all requests are done, and the exam reads one bank, which a serial
\* run of the batches would have produced.
Counterexample_C8 ==
  /\ NoDupTexts(bank)
  /\ AllDone => (LoadBank(disk).type = "list" /\ LoadBank(disk).bank = bank)
  /\ \A k \in 1..Len(seen) : seen[k] = seen[1] /\ seen[k] \in SerialBanks

====
